---- MODULE Spec2Model ----
(***************************************************************************)
(* A model of the icrochet image-to-stitch-pattern backend:                *)
(*   backend/src/image_to_pattern_vectorised.py  (array pipeline)          *)
(*   backend/src/main.py                         (per-pixel pipeline)      *)
(*   backend/app.py                              (HTTP upload endpoint)    *)
(*                                                                         *)
(* numpy and Python compute the resize indices, the grey map, the          *)
(* gradients and the brightness in IEEE-754 binary64.  The model keeps     *)
(* that arithmetic: a float is a sign, a 53-bit mantissa and an exponent,  *)
(* and every operation rounds to nearest, ties to even.  Mantissas are     *)
(* little-endian sequences of 15-bit limbs, so that the product of two     *)
(* limbs plus a carry stays below 2^31.                                    *)
(***************************************************************************)
EXTENDS Integers, Sequences, FiniteSets, TLC

(***************************************************************************)
(* Natural numbers of any size: little-endian limbs, no leading zero limb. *)
(***************************************************************************)
Base == 2^15
LimbBits == CHOOSE k \in 1..30 : 2^k = Base

RECURSIVE BigNorm(_)
BigNorm(s) ==
  IF s = <<>> THEN s
  ELSE IF s[Len(s)] = 0 THEN BigNorm(SubSeq(s, 1, Len(s) - 1)) ELSE s

RECURSIVE BigFromInt(_)
BigFromInt(n) == IF n = 0 THEN <<>> ELSE <<n % Base>> \o BigFromInt(n \div Base)

RECURSIVE BigToInt(_)
BigToInt(s) == IF s = <<>> THEN 0 ELSE s[1] + Base * BigToInt(Tail(s))

Limb(s, i) == IF i >= 1 /\ i <= Len(s) THEN s[i] ELSE 0

\* the sequence f, each element computed once
Arr(f) == f \o <<>>

MinOf(a, b) == IF a <= b THEN a ELSE b

RECURSIVE AddFrom(_, _, _, _)
AddFrom(a, b, i, carry) ==
  IF i > Len(a) /\ i > Len(b)
  THEN (IF carry = 0 THEN <<>> ELSE <<carry>>)
  ELSE LET t == Limb(a, i) + Limb(b, i) + carry
       IN  <<t % Base>> \o AddFrom(a, b, i + 1, t \div Base)

BigAdd(a, b) == AddFrom(a, b, 1, 0)

\* a - b for a >= b
RECURSIVE SubFrom(_, _, _, _)
SubFrom(a, b, i, borrow) ==
  IF i > Len(a) THEN <<>>
  ELSE LET t == Limb(a, i) - Limb(b, i) - borrow
       IN  IF t < 0 THEN <<t + Base>> \o SubFrom(a, b, i + 1, 1)
                    ELSE <<t>> \o SubFrom(a, b, i + 1, 0)

BigSub(a, b) == BigNorm(SubFrom(a, b, 1, 0))

\* -1, 0, 1 as a < b, a = b, a > b
RECURSIVE CmpFrom(_, _, _)
CmpFrom(a, b, i) ==
  IF i = 0 THEN 0
  ELSE IF a[i] < b[i] THEN -1
  ELSE IF a[i] > b[i] THEN 1
  ELSE CmpFrom(a, b, i - 1)

BigCmp(a, b) ==
  IF Len(a) < Len(b) THEN -1
  ELSE IF Len(a) > Len(b) THEN 1
  ELSE CmpFrom(a, b, Len(a))

\* a * k for 0 <= k < Base
RECURSIVE MulSmallFrom(_, _, _, _)
MulSmallFrom(a, k, i, carry) ==
  IF i > Len(a)
  THEN (IF carry = 0 THEN <<>> ELSE <<carry>>)
  ELSE LET t == a[i] * k + carry
       IN  <<t % Base>> \o MulSmallFrom(a, k, i + 1, t \div Base)

BigMulSmall(a, k) == IF k = 0 THEN <<>> ELSE MulSmallFrom(a, k, 1, 0)

ZeroLimbs(n) == [i \in 1..n |-> 0]

RECURSIVE MulFrom(_, _, _)
MulFrom(a, b, j) ==
  IF j > Len(b) THEN <<>>
  ELSE BigAdd(ZeroLimbs(j - 1) \o BigMulSmall(a, b[j]), MulFrom(a, b, j + 1))

BigMul(a, b) == IF a = <<>> \/ b = <<>> THEN <<>> ELSE BigNorm(MulFrom(a, b, 1))

RECURSIVE SmallBitLen(_)
SmallBitLen(n) == IF n = 0 THEN 0 ELSE 1 + SmallBitLen(n \div 2)

BigBitLen(a) ==
  IF a = <<>> THEN 0 ELSE LimbBits * (Len(a) - 1) + SmallBitLen(a[Len(a)])

\* a * 2^k
BigShl(a, k) ==
  IF a = <<>> THEN <<>>
  ELSE ZeroLimbs(k \div LimbBits) \o BigMulSmall(a, 2^(k % LimbBits))

\* floor(a / 2^k)
BigShr(a, k) ==
  LET q == k \div LimbBits
      r == k % LimbBits
      p == 2^r
      hi == 2^(LimbBits - r)
  IN  IF q >= Len(a) THEN <<>>
      ELSE BigNorm([i \in 1..(Len(a) - q) |->
                      (a[i + q] \div p) + (Limb(a, i + q + 1) % p) * hi])

\* bit k of a (bit 0 is the lowest)
BigBit(a, k) == (Limb(a, (k \div LimbBits) + 1) \div 2^(k % LimbBits)) % 2

\* a mod 2^k # 0
BigLowNonZero(a, k) ==
  LET q == k \div LimbBits
      r == k % LimbBits
  IN  \/ \E i \in 1..MinOf(q, Len(a)) : a[i] # 0
      \/ Limb(a, q + 1) % 2^(r) # 0

\* <<floor(a / d), a mod d>> for 0 < d < Base
RECURSIVE DivSmallFrom(_, _, _, _)
DivSmallFrom(a, d, i, rem) ==
  IF i = 0 THEN <<<<>>, rem>>
  ELSE LET t == rem * Base + a[i]
           rest == DivSmallFrom(a, d, i - 1, t % d)
       IN  <<rest[1] \o <<t \div d>>, rest[2]>>

BigDivSmall(a, d) ==
  LET r == DivSmallFrom(a, d, Len(a), 0) IN <<BigNorm(r[1]), r[2]>>

\* floor(sqrt(n)): r and r2 = r*r are kept, one bit of r is tried per step
RECURSIVE SqrtFrom(_, _, _, _)
SqrtFrom(n, r, r2, b) ==
  IF b < 0 THEN r
  ELSE LET t == BigAdd(BigAdd(r2, BigShl(r, b + 1)), BigShl(<<1>>, 2 * b))
       IN  IF BigCmp(t, n) <= 0
           THEN SqrtFrom(n, BigAdd(r, BigShl(<<1>>, b)), t, b - 1)
           ELSE SqrtFrom(n, r, r2, b - 1)

BigSqrt(n) == SqrtFrom(n, <<>>, <<>>, (BigBitLen(n) + 1) \div 2)

(***************************************************************************)
(* binary64: value = (-1)^neg * m * 2^e, m = 0 or 2^52 <= m < 2^53.        *)
(* The values of the model stay far from overflow and from subnormals.     *)
(***************************************************************************)
MantBits == 53

FZero == [neg |-> FALSE, m |-> <<>>, e |-> 0]

\* q = floor(n / 2^s) moved to the nearest integer to n / 2^s, ties to even
Nearest(n, s, q) ==
  IF BigBit(n, s - 1) = 1 /\ (BigLowNonZero(n, s - 1) \/ q[1] % 2 = 1)
  THEN BigAdd(q, <<1>>)
  ELSE q

\* the rounded mantissa q may have reached 2^53
FRenorm(neg, q, e) ==
  IF BigBitLen(q) > MantBits THEN [neg |-> neg, m |-> BigShr(q, 1), e |-> e + 1]
  ELSE [neg |-> neg, m |-> q, e |-> e]

\* n of len bits, n # 0
FRoundLen(neg, n, e, len) ==
  IF len <= MantBits
  THEN [neg |-> neg, m |-> BigShl(n, MantBits - len), e |-> e - (MantBits - len)]
  ELSE FRenorm(neg, Nearest(n, len - MantBits, BigShr(n, len - MantBits)),
               e + (len - MantBits))

\* n * 2^e rounded to nearest, ties to even
FRound(neg, n, e) == IF n = <<>> THEN FZero ELSE FRoundLen(neg, n, e, BigBitLen(n))

\* float(n) for an integer n
FFromInt(n) == FRound(n < 0, BigFromInt(IF n < 0 THEN 0 - n ELSE n), 0)

\* -1, 0, 1 as |a| < |b|, |a| = |b|, |a| > |b|
FCmpMag(a, b) ==
  IF a.m = <<>> THEN (IF b.m = <<>> THEN 0 ELSE -1)
  ELSE IF b.m = <<>> THEN 1
  ELSE IF a.e < b.e THEN -1
  ELSE IF a.e > b.e THEN 1
  ELSE BigCmp(a.m, b.m)

FCmp(a, b) ==
  IF a.neg /\ ~b.neg THEN (IF a.m = <<>> /\ b.m = <<>> THEN 0 ELSE -1)
  ELSE IF ~a.neg /\ b.neg THEN (IF a.m = <<>> /\ b.m = <<>> THEN 0 ELSE 1)
  ELSE IF a.neg THEN 0 - FCmpMag(a, b)
  ELSE FCmpMag(a, b)

FLt(a, b) == FCmp(a, b) < 0
FGt(a, b) == FCmp(a, b) > 0

\* |x - y|
BigDiff(x, y, c) == IF c = 0 THEN <<>> ELSE IF c > 0 THEN BigSub(x, y) ELSE BigSub(y, x)

\* (-1)^aneg * x + (-1)^bneg * y for naturals x, y with c = BigCmp(x, y)
SignedSum(aneg, x, bneg, y, c, e) ==
  FRound(IF aneg = bneg \/ c > 0 THEN aneg ELSE bneg,
         IF aneg = bneg THEN BigAdd(x, y) ELSE BigDiff(x, y, c), e)

\* the mantissas x, y brought to the common exponent e
FAddAligned(aneg, x, bneg, y, e) == SignedSum(aneg, x, bneg, y, BigCmp(x, y), e)

FAddAt(a, b, e) == FAddAligned(a.neg, BigShl(a.m, a.e - e), b.neg, BigShl(b.m, b.e - e), e)

FAdd(a, b) ==
  IF a.m = <<>> THEN b
  ELSE IF b.m = <<>> THEN a
  ELSE FAddAt(a, b, MinOf(a.e, b.e))

FMul(a, b) ==
  IF a.m = <<>> \/ b.m = <<>> THEN FZero
  ELSE FRound(a.neg # b.neg, BigMul(a.m, b.m), a.e + b.e)

DivGuard == MantBits + LimbBits + 2

\* p / q for integers p >= 0, 0 < q < Base (true division, correctly rounded)
\* twice the quotient d[1], made odd when the remainder d[2] is not zero
Sticky(d) == BigAdd(BigMulSmall(d[1], 2), IF d[2] = 0 THEN <<>> ELSE <<1>>)

FDivInt(p, q) ==
  FRound(FALSE, Sticky(BigDivSmall(BigShl(BigFromInt(p), DivGuard), q)), 0 - DivGuard - 1)

\* sqrt(a) for a >= 0, correctly rounded
\* <<r, n - r*r = 0 ? 0 : 1>> for r = floor(sqrt(n))
RootAndRest(n, r) == <<r, IF BigCmp(BigMul(r, r), n) = 0 THEN 0 ELSE 1>>

\* a.m is shifted by k bits, k chosen to make the exponent a.e - k even
FSqrtAt(a, k) ==
  FRound(FALSE, Sticky(RootAndRest(BigShl(a.m, k), BigSqrt(BigShl(a.m, k)))),
         ((a.e - k) \div 2) - 1)

FSqrt(a) ==
  IF a.m = <<>> THEN FZero
  ELSE FSqrtAt(a, IF (a.e % 2) = 0 THEN MantBits + 5 ELSE MantBits + 6)

\* int(a): truncation toward zero
FTrunc(a) ==
  (IF a.neg THEN 0 - 1 ELSE 1)
    * BigToInt(IF a.e >= 0 THEN BigShl(a.m, a.e) ELSE BigShr(a.m, 0 - a.e))


(***************************************************************************)
(* Strings are sequences of one-character strings.                         *)
(***************************************************************************)
UpperChars == <<"A","B","C","D","E","F","G","H","I","J","K","L","M",
                "N","O","P","Q","R","S","T","U","V","W","X","Y","Z">>
LowerChars == <<"a","b","c","d","e","f","g","h","i","j","k","l","m",
                "n","o","p","q","r","s","t","u","v","w","x","y","z">>
DigitChars == <<"0","1","2","3","4","5","6","7","8","9">>

IndexIn(ch, seq) ==
  IF \E i \in 1..Len(seq) : seq[i] = ch
  THEN CHOOSE i \in 1..Len(seq) : seq[i] = ch
  ELSE 0

\* str.lower()
LowerChar(ch) == IF IndexIn(ch, UpperChars) > 0 THEN LowerChars[IndexIn(ch, UpperChars)] ELSE ch
StrLower(s) == [i \in 1..Len(s) |-> LowerChar(s[i])]

\* str.lstrip(ch), str.strip()
RECURSIVE LStrip(_, _)
LStrip(s, ch) == IF s # <<>> /\ s[1] = ch THEN LStrip(Tail(s), ch) ELSE s

RECURSIVE RStrip(_, _)
RStrip(s, ch) ==
  IF s # <<>> /\ s[Len(s)] = ch THEN RStrip(SubSeq(s, 1, Len(s) - 1), ch) ELSE s

StrStrip(s) == RStrip(LStrip(s, " "), " ")

\* s[i:j] for 0 <= i <= j
PySlice(s, i, j) == SubSeq(s, i + 1, MinOf(j, Len(s)))

\* the value of one hexadecimal digit, -1 for any other character
HexDigit(ch) ==
  IF IndexIn(ch, DigitChars) > 0 THEN IndexIn(ch, DigitChars) - 1
  ELSE IF IndexIn(ch, SubSeq(LowerChars, 1, 6)) > 0 THEN 9 + IndexIn(ch, SubSeq(LowerChars, 1, 6))
  ELSE IF IndexIn(ch, SubSeq(UpperChars, 1, 6)) > 0 THEN 9 + IndexIn(ch, SubSeq(UpperChars, 1, 6))
  ELSE 0 - 1

RECURSIVE HexValue(_)
HexValue(s) == IF s = <<>> THEN 0 ELSE 16 * HexValue(SubSeq(s, 1, Len(s) - 1)) + HexDigit(s[Len(s)])

\* int(s, 16): ValueError on the empty string and on a character that is no digit
IntBase16(s) ==
  IF s = <<>> \/ \E i \in 1..Len(s) : HexDigit(s[i]) < 0
  THEN [err |-> "ValueError"]
  ELSE [err |-> "none", val |-> HexValue(s)]

\* [int(hex_code.lstrip('#')[i:i+2], 16) for i in (0, 2, 4)]
HexToRgb(hex_code) ==
  LET h == LStrip(hex_code, "#")
      p == [k \in 1..3 |-> IntBase16(PySlice(h, 2 * (k - 1), 2 * k))]
  IN  IF \E k \in 1..3 : p[k].err # "none"
      THEN [err |-> "ValueError"]
      ELSE [err |-> "none", rgb |-> [k \in 1..3 |-> p[k].val]]

(***************************************************************************)
(* Palette: a dict, kept as the sequence of its items in insertion order.  *)
(***************************************************************************)
PyNone == <<"None">>

DictHas(d, key) == \E i \in 1..Len(d) : d[i].name = key

\* d[key] = value: an existing key keeps its place
DictSet(d, key, value) ==
  IF DictHas(d, key)
  THEN [i \in 1..Len(d) |-> IF d[i].name = key THEN [name |-> key, hex |-> value] ELSE d[i]]
  ELSE Append(d, [name |-> key, hex |-> value])

\* d.get(key, default)
DictGet(d, key, default) ==
  IF DictHas(d, key) THEN (CHOOSE e \in {d[i] : i \in 1..Len(d)} : e.name = key).hex
  ELSE default

\* {name.lower(): hex_code for name, hex_code in items}
RECURSIVE LoadItems(_, _)
LoadItems(items, d) ==
  IF items = <<>> THEN d
  ELSE LoadItems(Tail(items), DictSet(d, StrLower(items[1].name), items[1].hex))

\* image_to_pattern_vectorised.load_yarn_palette: keys lower-cased, values as read
load_yarn_palette(resource) ==
  IF resource.kind = "missing" THEN [err |-> "FileNotFoundError"]
  ELSE [err |-> "none", palette |-> LoadItems(resource.colours, <<>>)]

(***************************************************************************)
(* Colour classification.                                                  *)
(***************************************************************************)
SqDist(p, q) == (p[1] - q[1]) * (p[1] - q[1]) + (p[2] - q[2]) * (p[2] - q[2])
                + (p[3] - q[3]) * (p[3] - q[3])

\* main.nearest_colour: the loop over yarn_palette.items(); min_dist starts at inf
RECURSIVE NearestLoop(_, _, _, _, _)
NearestLoop(rgb, d, i, min_dist, closest) ==
  IF i > Len(d) THEN [err |-> "none", name |-> closest]
  ELSE LET y == HexToRgb(d[i].hex) IN
    IF y.err # "none" THEN [err |-> y.err]
    ELSE LET dist == SqDist(rgb, y.rgb) IN
      IF min_dist.inf \/ dist < min_dist.val
      THEN NearestLoop(rgb, d, i + 1, [inf |-> FALSE, val |-> dist], d[i].name)
      ELSE NearestLoop(rgb, d, i + 1, min_dist, closest)

nearest_colour(rgb, yarn_palette) ==
  NearestLoop(rgb, yarn_palette, 1, [inf |-> TRUE, val |-> 0], PyNone)

\* np.argmin: the first index of the least element
RECURSIVE ArgMinLastFrom(_, _, _)
ArgMinLastFrom(dist, i, best) ==
  IF i > Len(dist) THEN best
  ELSE ArgMinLastFrom(dist, i + 1, IF dist[i] <= dist[best] THEN i ELSE best)

ArgMinLast(dist) == ArgMinLastFrom(dist, 2, 1)

RECURSIVE ArgMinFrom(_, _, _)
ArgMinFrom(dist, i, best) ==
  IF i > Len(dist) THEN best
  ELSE ArgMinFrom(dist, i + 1, IF dist[i] < dist[best] THEN i ELSE best)

ArgMin(dist) == ArgMinFrom(dist, 2, 1)

\* image_to_pattern_vectorised.nearest_colour_vectorised, for an image of
\* at least one row and one column (px is the sequence of its rows)
nearest_colour_vectorised(px, yarn_palette) ==
  LET parsed == Arr([k \in 1..Len(yarn_palette) |-> HexToRgb(yarn_palette[k].hex)]) IN
    IF \E k \in 1..Len(parsed) : parsed[k].err # "none" THEN [err |-> "ValueError"]
    ELSE IF yarn_palette = <<>> THEN [err |-> "IndexError"]
    ELSE [err |-> "none",
          names |-> [r \in 1..Len(px) |-> [c \in 1..Len(px[r]) |->
             yarn_palette[ArgMin([k \in 1..Len(parsed) |->
                                     SqDist(px[r][c], parsed[k].rgb)])].name]]]

(***************************************************************************)
(* Stitch classification.                                                  *)
(***************************************************************************)
EdgeThreshold == 150
BrightnessThreshold == 100
FEdgeThreshold == FFromInt(EdgeThreshold)
FBrightnessThreshold == FFromInt(BrightnessThreshold)

RECURSIVE SumLeft(_, _, _)
SumLeft(terms, i, acc) ==
  IF i > Len(terms) THEN acc ELSE SumLeft(terms, i + 1, FAdd(acc, terms[i]))

\* terms[1] + terms[2] + ... , added left to right
SumAll(terms) == SumLeft(terms, 2, terms[1])

\* the literals 0.299, 0.587, 0.114: the doubles nearest to 299/1000, ...
LumaWeights == Arr([k \in 1..3 |-> FDivInt(<<299, 587, 114>>[k], 1000)])

\* 0.299*r + 0.587*g + 0.114*b, evaluated left to right in binary64
Luma(p) == SumAll(Arr([k \in 1..3 |-> FMul(LumaWeights[k], FFromInt(p[k]))]))

\* main.edge_brightness_to_stitch
edge_brightness_to_stitch(pixel_rgb, edge_strength) ==
  LET brightness == Luma(pixel_rgb) IN
    IF FGt(edge_strength, FEdgeThreshold) THEN "x"
    ELSE IF FLt(brightness, FBrightnessThreshold) THEN "+"
    ELSE "o"

\* the vectorised classifier with its two masked assignments in the other order
edge_brightness_to_stitch_swapped(px, edge_array) ==
  LET brightness == [r \in 1..Len(px) |-> [c \in 1..Len(px[r]) |-> Luma(px[r][c])]]
      s0 == [r \in 1..Len(px) |-> [c \in 1..Len(px[r]) |-> "o"]]
      s1 == [r \in 1..Len(px) |-> [c \in 1..Len(px[r]) |->
               IF FGt(edge_array[r][c], FEdgeThreshold) THEN "x" ELSE s0[r][c]]]
  IN  [r \in 1..Len(px) |-> [c \in 1..Len(px[r]) |->
         IF FLt(brightness[r][c], FBrightnessThreshold) THEN "+" ELSE s1[r][c]]]

\* image_to_pattern_vectorised.edge_brightness_to_stitch_vectorised
edge_brightness_to_stitch_vectorised(px, edge_array) ==
  LET brightness == [r \in 1..Len(px) |-> [c \in 1..Len(px[r]) |-> Luma(px[r][c])]]
      s0 == [r \in 1..Len(px) |-> [c \in 1..Len(px[r]) |-> "o"]]
      s1 == [r \in 1..Len(px) |-> [c \in 1..Len(px[r]) |->
               IF FLt(brightness[r][c], FBrightnessThreshold) THEN "+" ELSE s0[r][c]]]
  IN  [r \in 1..Len(px) |-> [c \in 1..Len(px[r]) |->
         IF FGt(edge_array[r][c], FEdgeThreshold) THEN "x" ELSE s1[r][c]]]

(***************************************************************************)
(* Images: rows and cols are the array's shape, px the sequence of rows,   *)
(* each a sequence of <<r, g, b>> with channels in 0..255.                 *)
(***************************************************************************)
\* (np.arange(new) * (old / new)).astype(int)
ResizeIndex(old, new) ==
  LET scale == FDivInt(old, new)
  IN  Arr([i \in 1..new |-> FTrunc(FMul(FFromInt(i - 1), scale))])

\* image_to_pattern_vectorised.resize_image, for new_rows, new_cols >= 0
resize_image(img_array, new_rows, new_cols) ==
  IF new_rows = 0 \/ new_cols = 0 THEN [err |-> "ZeroDivisionError"]
  ELSE LET row_idx == ResizeIndex(img_array.rows, new_rows)
           col_idx == ResizeIndex(img_array.cols, new_cols)
       IN  IF \/ \E i \in 1..new_rows : row_idx[i] >= img_array.rows
              \/ \E j \in 1..new_cols : col_idx[j] >= img_array.cols
           THEN [err |-> "IndexError"]
           ELSE [err |-> "none",
                 img |-> [rows |-> new_rows, cols |-> new_cols,
                          px |-> [i \in 1..new_rows |-> [j \in 1..new_cols |->
                                    img_array.px[row_idx[i] + 1][col_idx[j] + 1]]]]]

(***************************************************************************)
(* Edge detection.                                                         *)
(***************************************************************************)
\* np.array(..., dtype=float)
FloatMatrix(K) == [i \in 1..3 |-> [j \in 1..3 |-> FFromInt(K[i][j])]]
Kx == FloatMatrix(<< <<-1, 0, 1>>, <<-2, 0, 2>>, <<-1, 0, 1>> >>)
Ky == FloatMatrix(<< <<1, 2, 1>>, <<0, 0, 0>>, <<-1, -2, -1>> >>)

Clamp(i, lo, hi) == IF i < lo THEN lo ELSE IF i > hi THEN hi ELSE i

\* np.pad(gray, ((1,1),(1,1)), mode='constant'): zeros around the map
PadZero(gray, h, w) ==
  [r \in 1..(h + 2) |-> [c \in 1..(w + 2) |->
     IF r = 1 \/ r = h + 2 \/ c = 1 \/ c = w + 2 THEN FZero ELSE gray[r - 1][c - 1]]]

\* np.pad(gray, ((1,1),(1,1)), mode='edge'): border cells repeated outward
PadEdge(gray, h, w) ==
  [r \in 1..(h + 2) |-> [c \in 1..(w + 2) |->
     gray[Clamp(r - 1, 1, h)][Clamp(c - 1, 1, w)]]]

\* K[0,0]*p[:-2,:-2] + K[0,1]*p[:-2,1:-1] + ... + K[2,2]*p[2:,2:] at cell (r, c)
Convolve(K, padded, r, c) ==
  SumAll(Arr([k \in 1..9 |->
           FMul(K[((k - 1) \div 3) + 1][((k - 1) % 3) + 1],
                padded[r + ((k - 1) \div 3)][c + ((k - 1) % 3)])]))

\* image_to_pattern_vectorised.compute_edges
\* 0.299*R + 0.587*G + 0.114*B over the array
GrayMap(img_array) ==
  Arr([r \in 1..img_array.rows |->
         Arr([c \in 1..img_array.cols |-> Luma(img_array.px[r][c])])])

\* np.sqrt(gx**2 + gy**2) at one cell, g = <<gx, gy>>
Magnitude(g) == FSqrt(SumAll(Arr([k \in 1..2 |-> FMul(g[k], g[k])])))

\* gx and gy at every cell of the map
Gradients(gray_padded, h, w) ==
  [r \in 1..h |-> [c \in 1..w |->
     Magnitude(Arr([k \in 1..2 |-> Convolve(<<Kx, Ky>>[k], gray_padded, r, c)]))]]

\* image_to_pattern_vectorised.compute_edges
compute_edges(img_array) ==
  Gradients(PadEdge(GrayMap(img_array), img_array.rows, img_array.cols),
            img_array.rows, img_array.cols)

(***************************************************************************)
(* Grid assembly and rendering.                                            *)
(***************************************************************************)
\* the list comprehension of image_to_stitch_grid with its loops exchanged
GridColumnMajor(rows, cols, stitch_array, colour_array) ==
  [k \in 1..(rows * cols) |->
     LET r == (k - 1) % rows
         c == (k - 1) \div rows
     IN  [row |-> r, col |-> c,
          stitch |-> stitch_array[r + 1][c + 1], colour |-> colour_array[r + 1][c + 1]]]

\* [(r,c,stitch_array[r,c],colour_array[r,c]) for r in range(rows) for c in range(cols)]
GridRows(rows, cols, stitch_array, colour_array) ==
  [k \in 1..(rows * cols) |->
     LET r == (k - 1) \div cols
         c == (k - 1) % cols
     IN  [row |-> r, col |-> c,
          stitch |-> stitch_array[r + 1][c + 1], colour |-> colour_array[r + 1][c + 1]]]

\* image_to_pattern_vectorised.image_to_stitch_grid
\* the rows of the frame, once both classifiers have run
GridFrame(img_array, stitch_array, colours) ==
  IF colours.err # "none" THEN [err |-> colours.err]
  ELSE [err |-> "none",
        df |-> GridRows(img_array.rows, img_array.cols, stitch_array, colours.names)]

\* image_to_pattern_vectorised.image_to_stitch_grid
image_to_stitch_grid(img_array, edge_array, yarn_palette) ==
  GridFrame(img_array, edge_brightness_to_stitch_vectorised(img_array.px, edge_array),
            nearest_colour_vectorised(img_array.px, yarn_palette))

FallbackHex == <<"#","0","0","0","0","0","0">>

\* image_to_pattern_vectorised.visualise_stitch_grid: the artifact is the
\* original image as read from image_path and one text mark per cell
visualise_stitch_grid(df, yarn_palette, rows, cols, original) ==
  [original |-> original, rows |-> rows, cols |-> cols,
   marks |-> [k \in 1..Len(df) |->
                [row |-> df[k].row, col |-> df[k].col, stitch |-> df[k].stitch,
                 color |-> DictGet(yarn_palette, StrLower(StrStrip(df[k].colour)),
                                   FallbackHex)]]]

(***************************************************************************)
(* Inputs of the model.                                                    *)
(***************************************************************************)
MaxSrc == 2          \* source images of the pipeline are at most MaxSrc x MaxSrc
MaxCols == 2         \* the requested column count is at most MaxCols
MaxPalette == 2      \* palettes handed to the classifiers hold at most MaxPalette entries
MaxTall == 30        \* resize_image alone is given sources of up to MaxTall rows
MaxNewRows == 22     \* ... and targets of up to MaxNewRows rows
MaxWide == 2         \* ... with up to MaxWide source and target columns

Black == <<0, 0, 0>>
White == <<255, 255, 255>>
NearBlack == <<0, 0, 1>>
Grey100 == <<100, 100, 100>>
Luma100 == <<10, 154, 58>>

NameBlack == <<"b","l","a","c","k">>
NameWhite == <<"w","h","i","t","e">>
NameRed == <<"r","e","d">>
NameGreen == <<"g","r","e","e","n">>
HexBlack == <<"#","0","0","0","0","0","0">>
HexWhite == <<"#","F","F","F","F","F","F">>
HexRed == <<"#","F","F","0","0","0","0">>
HexGreen == <<"0","0","f","f","0","0">>
HexFiveDigits == <<"#","0","0","0","0","0">>

Item(n, h) == [name |-> n, hex |-> h]

\* palette resources: the colours mapping of the YAML document, in document order
ResBlackWhite == [kind |-> "ok", colours |-> <<Item(NameBlack, HexBlack), Item(NameWhite, HexWhite)>>]
ResMixedCase == [kind |-> "ok", colours |-> <<Item(<<"R","e","d">>, HexRed), Item(NameGreen, HexGreen)>>]
ResFiveDigits == [kind |-> "ok", colours |-> <<Item(NameBlack, HexFiveDigits), Item(NameWhite, HexWhite)>>]
ResPadded == [kind |-> "ok", colours |-> <<Item(<<" ">> \o NameWhite, HexWhite)>>]
ResEmpty == [kind |-> "ok", colours |-> <<>>]
ResMissing == [kind |-> "missing", colours |-> <<>>]
Resources == {ResBlackWhite, ResMixedCase, ResFiveDigits, ResPadded, ResEmpty, ResMissing}

\* exactly 6 hex digits after an optional leading '#'
WellFormedHex(h) ==
  LET d == IF h # <<>> /\ h[1] = "#" THEN Tail(h) ELSE h
  IN  Len(d) = 6 /\ \A i \in 1..6 : HexDigit(d[i]) >= 0

\* palettes for the classifiers alone: up to MaxPalette distinct entries
PaletteEntries == {Item(NameBlack, HexBlack), Item(NameWhite, HexWhite),
                   Item(NameRed, HexRed), Item(NameGreen, HexGreen)}
Palettes ==
  UNION {{p \in [1..n -> PaletteEntries] : \A i, j \in 1..n : i # j => p[i] # p[j]}
         : n \in 0..MaxPalette}

Pixels == ({0, 100, 255} \X {0, 100, 255} \X {0, 100, 255}) \cup {NearBlack, Luma100}
ArrayPixels == {Black, White, Grey100, Luma100}

\* edge strengths given to the stitch classifiers alone
EdgeValues == {FDivInt(n, 20) : n \in {0, 2980, 3000, 3001, 3020, 5100}}

\* black and white cells in alternation
CheckerImage(h, w) ==
  [rows |-> h, cols |-> w,
   px |-> [r \in 1..h |-> [c \in 1..w |-> IF (r + c) % 2 = 0 THEN Black ELSE White]]]
\* every cell holds its own coordinates: no two cells are equal
CoordImage(h, w) ==
  [rows |-> h, cols |-> w, px |-> [r \in 1..h |-> [c \in 1..w |-> <<r - 1, c - 1, 0>>]]]
FlatImage(h, w, p) == [rows |-> h, cols |-> w, px |-> [r \in 1..h |-> [c \in 1..w |-> p]]]

\* the images on disk or uploaded
Images ==
  UNION {{CheckerImage(h, w)} \cup {FlatImage(h, w, p) : p \in {Black, White, NearBlack, Grey100}}
         : <<h, w>> \in (1..MaxSrc) \X (1..MaxSrc)}

NoImage == [rows |-> 0, cols |-> 0, px |-> <<>>]
NoGrid == <<>>
NoArtifact == [original |-> NoImage, rows |-> 0, cols |-> 0, marks |-> <<>>]

(***************************************************************************)
(* State.                                                                  *)
(*   call     the last call of a function checked on its own               *)
(*   cli      the run of image_to_pattern_vectorised.py as a script        *)
(*   req      the upload requests the server is handling                   *)
(*   uploads  backend/uploads:  file name -> image                         *)
(*   outputs  backend/outputs:  file name -> rendered artifact             *)
(***************************************************************************)
VARIABLES call, cli, req, uploads, outputs

vars == <<call, cli, req, uploads, outputs>>

Requests == {1, 2}
FileNames == {"a.png", "b.png"}

NoCall == [op |-> "none"]
IdleCli == [pc |-> "idle"]
EmptyFolders ==
  /\ uploads = [f \in FileNames |-> NoImage]
  /\ outputs = [f \in FileNames |-> NoArtifact]

IdleServer == req = [i \in Requests |-> [pc |-> "idle"]] /\ EmptyFolders

(***************************************************************************)
(* resize_image on its own.                                                *)
(***************************************************************************)
CallResize ==
  /\ call = NoCall
  /\ UNCHANGED <<cli, req, uploads, outputs>>
  /\ \E h \in 1..MaxTall, w \in 1..MaxWide, nr \in 0..MaxNewRows, nc \in 1..MaxWide :
    call' = [op |-> "resize_image", src |-> CoordImage(h, w),
             new_rows |-> nr, new_cols |-> nc,
             out |-> resize_image(CoordImage(h, w), nr, nc)]

InitResize == call = NoCall /\ cli = IdleCli /\ IdleServer
NextResize == CallResize
SpecResize == InitResize /\ [][NextResize]_vars

(***************************************************************************)
(* The classifiers on their own.                                           *)
(***************************************************************************)
PixelArrays == {<<<<p>>>> : p \in ArrayPixels} \cup {<<<<p, q>>>> : p, q \in ArrayPixels}

CallNearestColour ==
  /\ call = NoCall
  /\ UNCHANGED <<cli, req, uploads, outputs>>
  /\ \E rgb \in Pixels, pal \in Palettes :
    call' = [op |-> "nearest_colour", rgb |-> rgb, palette |-> pal,
             out |-> nearest_colour(rgb, pal)]

CallNearestColourVectorised ==
  /\ call = NoCall
  /\ UNCHANGED <<cli, req, uploads, outputs>>
  /\ \E px \in PixelArrays, pal \in Palettes :
    call' = [op |-> "nearest_colour_vectorised", px |-> px, palette |-> pal,
             out |-> nearest_colour_vectorised(px, pal)]

CallStitch ==
  /\ call = NoCall
  /\ UNCHANGED <<cli, req, uploads, outputs>>
  /\ \E rgb \in Pixels, e \in EdgeValues :
    call' = [op |-> "edge_brightness_to_stitch", rgb |-> rgb, edge |-> e,
             out |-> edge_brightness_to_stitch(rgb, e)]

CallStitchVectorised ==
  /\ call = NoCall
  /\ UNCHANGED <<cli, req, uploads, outputs>>
  /\ \E px \in PixelArrays, e1, e2 \in EdgeValues :
    call' = [op |-> "edge_brightness_to_stitch_vectorised", px |-> px,
             edges |-> <<SubSeq(<<e1, e2>>, 1, Len(px[1]))>>,
             out |-> edge_brightness_to_stitch_vectorised(
                       px, <<SubSeq(<<e1, e2>>, 1, Len(px[1]))>>)]

InitClassify == call = NoCall /\ cli = IdleCli /\ IdleServer
NextClassify ==
  \/ CallNearestColour
  \/ CallNearestColourVectorised
  \/ CallStitch
  \/ CallStitchVectorised
SpecClassify == InitClassify /\ [][NextClassify]_vars


(***************************************************************************)
(* image_to_pattern_vectorised.py run as a script (lines 132-160).         *)
(***************************************************************************)
\* rows = int(cols * aspect_ratio), aspect_ratio = img.shape[0] / img.shape[1]
cli_rows(img, cols) == FTrunc(FMul(FFromInt(cols), FDivInt(img.rows, img.cols)))

RECURSIVE InsertByCol(_, _)
InsertByCol(sorted, x) ==
  IF sorted = <<>> THEN <<x>>
  ELSE IF sorted[Len(sorted)].col <= x.col THEN Append(sorted, x)
  ELSE Append(InsertByCol(SubSeq(sorted, 1, Len(sorted) - 1), x), sorted[Len(sorted)])

RECURSIVE SortByCol(_)
SortByCol(seq) ==
  IF seq = <<>> THEN <<>>
  ELSE InsertByCol(SortByCol(SubSeq(seq, 1, Len(seq) - 1)), seq[Len(seq)])

\* for r in range(rows): " ".join(f"{s[2]}({s[3]})" for s in df.filter(row == r).sort("col"))
PrintGrid(df, rows) ==
  [r \in 1..rows |->
     LET row_data == SortByCol(SelectSeq(df, LAMBDA cell : cell.row = r - 1))
     IN  [k \in 1..Len(row_data) |->
            <<row_data[k].stitch, "(">> \o row_data[k].colour \o <<")">>]]

\* cols and rows before they are assigned
Unset == 0 - 1

StartCli(resource, image) ==
  [pc |-> "start", resource |-> resource, image |-> image, palette |-> <<>>,
   cols |-> Unset, rows |-> Unset, resized |-> NoImage, edges |-> <<>>, df |-> NoGrid,
   printed |-> <<>>, shown |-> NoArtifact, err |-> "none"]

CliFail(e) == cli' = [cli EXCEPT !.pc = "failed", !.err = e]

\* lines 133-135
CliLoaded(r) ==
  IF r.err # "none" THEN CliFail(r.err)
  ELSE cli' = [cli EXCEPT !.pc = "loaded", !.palette = r.palette]

CliLoadPalette ==
  /\ cli.pc = "start"
  /\ UNCHANGED <<call, req, uploads, outputs>>
  /\ CliLoaded(load_yarn_palette(cli.resource))

\* lines 137-145: the image is read, cols is typed in, rows follows
CliInput ==
  /\ cli.pc = "loaded"
  /\ UNCHANGED <<call, req, uploads, outputs>>
  /\ \E cols \in 0..MaxCols :
       cli' = [cli EXCEPT !.pc = "sized", !.cols = cols,
                          !.rows = cli_rows(cli.image, cols)]

\* line 147
CliResized(r) ==
  IF r.err # "none" THEN CliFail(r.err)
  ELSE cli' = [cli EXCEPT !.pc = "resized", !.resized = r.img]

CliResize ==
  /\ cli.pc = "sized"
  /\ UNCHANGED <<call, req, uploads, outputs>>
  /\ CliResized(resize_image(cli.image, cli.rows, cli.cols))

\* line 148
CliEdges ==
  /\ cli.pc = "resized"
  /\ UNCHANGED <<call, req, uploads, outputs>>
  /\ cli' = [cli EXCEPT !.pc = "edged", !.edges = compute_edges(cli.resized)]

\* line 149
CliGridded(g) ==
  IF g.err # "none" THEN CliFail(g.err)
  ELSE cli' = [cli EXCEPT !.pc = "gridded", !.df = g.df]

CliGrid ==
  /\ cli.pc = "edged"
  /\ UNCHANGED <<call, req, uploads, outputs>>
  /\ CliGridded(image_to_stitch_grid(cli.resized, cli.edges, cli.palette))

\* lines 151-158
CliPrint ==
  /\ cli.pc = "gridded"
  /\ UNCHANGED <<call, req, uploads, outputs>>
  /\ cli' = [cli EXCEPT !.pc = "printed", !.printed = PrintGrid(cli.df, cli.rows)]

\* line 160
CliShow ==
  /\ cli.pc = "printed"
  /\ UNCHANGED <<call, req, uploads, outputs>>
  /\ cli' = [cli EXCEPT !.pc = "done",
                        !.shown = visualise_stitch_grid(cli.df, cli.palette, cli.rows,
                                                        cli.cols, cli.image)]

Init ==
  /\ call = NoCall
  /\ IdleServer
  /\ \E resource \in Resources, image \in Images : cli = StartCli(resource, image)

Next ==
  \/ CliLoadPalette
  \/ CliInput
  \/ CliResize
  \/ CliEdges
  \/ CliGrid
  \/ CliPrint
  \/ CliShow

Spec == Init /\ [][Next]_vars

(***************************************************************************)
(* app.py: upload_image (lines 27-56) and serve_output (lines 59-64).      *)
(* Requests run concurrently; a step is one access to the upload or the    *)
(* output folder together with the computation that follows it.            *)
(***************************************************************************)
\* the palette loaded once when the module is imported (line 25)
yarn_palette == load_yarn_palette(ResBlackWhite).palette

\* line 43 with the image of the source file itself in place of the resampled one
upload_probe_source(filedata, cols) ==
  IF cols = 0 THEN [err |-> "ZeroDivisionError"] ELSE [err |-> "none", img |-> filedata]

\* line 43: img = resize_image(<the file>, cols, cols)
upload_probe(filedata, cols) == resize_image(filedata, cols, cols)

\* lines 44-45: rows = int(cols * (img.shape[0] / img.shape[1]))
upload_rows(img, cols) == FTrunc(FMul(FFromInt(cols), FDivInt(img.rows, img.cols)))

StartReq(file, filename, cols) ==
  [pc |-> "start", file |-> file, filename |-> filename, cols |-> cols,
   src1 |-> NoImage, rows |-> Unset, src2 |-> NoImage, df |-> NoGrid,
   fig |-> NoArtifact, fetched |-> NoArtifact, status |-> 0, err |-> "none"]

ReqFail(i, e) ==
  req' = [req EXCEPT ![i].pc = "failed", ![i].status = 500, ![i].err = e]

\* lines 29-31: no image part in the request
Reject(i) ==
  /\ req[i].pc = "start"
  /\ req[i].file = NoImage
  /\ req' = [req EXCEPT ![i].pc = "rejected", ![i].status = 400]
  /\ UNCHANGED <<call, cli, uploads, outputs>>

\* lines 33-40: the file is saved under its name, the parameters are read
Receive(i) ==
  /\ req[i].pc = "start"
  /\ req[i].file # NoImage
  /\ uploads' = [uploads EXCEPT ![req[i].filename] = req[i].file]
  /\ req' = [req EXCEPT ![i].pc = "saved"]
  /\ UNCHANGED <<call, cli, outputs>>

\* lines 43-45: the file is opened and resampled to cols x cols, rows follows
Probed(i, filedata, p) ==
  IF p.err # "none" THEN ReqFail(i, p.err)
  ELSE req' = [req EXCEPT ![i].pc = "sized", ![i].src1 = filedata,
                          ![i].rows = upload_rows(p.img, req[i].cols)]

Probe(i) ==
  /\ req[i].pc = "saved"
  /\ Probed(i, uploads[req[i].filename],
            upload_probe(uploads[req[i].filename], req[i].cols))
  /\ UNCHANGED <<call, cli, uploads, outputs>>

\* lines 46-50: the file is opened again, resampled, edge-detected and classified
\* lines 49-50 on the resampled image r.img
upload_grid(r) ==
  IF r.err # "none" THEN r
  ELSE image_to_stitch_grid(r.img, compute_edges(r.img), yarn_palette)

Processed(i, filedata, g) ==
  IF g.err # "none" THEN ReqFail(i, g.err)
  ELSE req' = [req EXCEPT ![i].pc = "gridded", ![i].src2 = filedata, ![i].df = g.df]

Process(i) ==
  /\ req[i].pc = "sized"
  /\ Processed(i, uploads[req[i].filename],
               upload_grid(resize_image(uploads[req[i].filename], req[i].rows,
                                        req[i].cols)))
  /\ UNCHANGED <<call, cli, uploads, outputs>>

\* lines 53-54: the figure is drawn from the file and the grid, and saved as
\* <filename>_pattern.png
Rendered(i, fig) ==
  /\ outputs' = [outputs EXCEPT ![req[i].filename] = fig]
  /\ req' = [req EXCEPT ![i].pc = "rendered", ![i].fig = fig]

Render(i) ==
  /\ req[i].pc = "gridded"
  /\ Rendered(i, visualise_stitch_grid(req[i].df, yarn_palette, req[i].rows,
                                       req[i].cols, uploads[req[i].filename]))
  /\ UNCHANGED <<call, cli, uploads>>

\* line 56: the response names the output file
Respond(i) ==
  /\ req[i].pc = "rendered"
  /\ req' = [req EXCEPT ![i].pc = "responded", ![i].status = 200]
  /\ UNCHANGED <<call, cli, uploads, outputs>>

\* serve_output: the client fetches the file its response named
ServeOutput(i) ==
  /\ req[i].pc = "responded"
  /\ req' = [req EXCEPT ![i].pc = "fetched", ![i].fetched = outputs[req[i].filename]]
  /\ UNCHANGED <<call, cli, uploads, outputs>>

NextUpload ==
  \E i \in Requests :
    \/ Reject(i)
    \/ Receive(i)
    \/ Probe(i)
    \/ Process(i)
    \/ Render(i)
    \/ Respond(i)
    \/ ServeOutput(i)

\* one request at a time, for every image and column count
InitUploadOne ==
  /\ call = NoCall /\ cli = IdleCli /\ EmptyFolders
  /\ \E file \in Images \cup {NoImage}, filename \in FileNames, cols \in 0..MaxCols :
       req = [i \in Requests |-> IF i = 1 THEN StartReq(file, filename, cols)
                                           ELSE [pc |-> "idle"]]

SpecUploadOne == InitUploadOne /\ [][NextUpload]_vars

\* two requests at once
InitUpload ==
  /\ call = NoCall /\ cli = IdleCli /\ EmptyFolders
  /\ \E file2 \in {FlatImage(2, 1, White), NoImage}, filename2 \in FileNames,
        cols1 \in 1..MaxCols, cols2 \in 0..MaxCols :
       req = [i \in Requests |->
                IF i = 1 THEN StartReq(CheckerImage(1, 2), "a.png", cols1)
                         ELSE StartReq(file2, filename2, cols2)]

SpecUpload == InitUpload /\ [][NextUpload]_vars

(***************************************************************************)
(* Properties.                                                             *)
(***************************************************************************)
\* C1: for a source of H x W and a target of R x C (all >= 1), resize_image
\* returns exactly R rows of C cells and cell (i, j) is the source pixel at
\* (floor(i*H/R), floor(j*W/C)).
C1_ResizeSelectsFloorPixel ==
  (call.op = "resize_image" /\ call.new_rows >= 1 /\ call.new_cols >= 1) =>
    /\ call.out.err = "none"
    /\ call.out.img.rows = call.new_rows
    /\ call.out.img.cols = call.new_cols
    /\ Len(call.out.img.px) = call.new_rows
    /\ \A i \in 1..call.new_rows :
         /\ Len(call.out.img.px[i]) = call.new_cols
         /\ \A j \in 1..call.new_cols :
              call.out.img.px[i][j] =
                call.src.px[(((i - 1) * call.src.rows) \div call.new_rows) + 1]
                           [(((j - 1) * call.src.cols) \div call.new_cols) + 1]

\* the squared RGB distance from rgb to entry k of the palette
EntryDist(rgb, pal, k) == SqDist(rgb, HexToRgb(pal[k].hex).rgb)

\* name is the name of the first entry of pal at least distance from rgb
FirstNearest(rgb, pal, name) ==
  \E k \in 1..Len(pal) :
    /\ pal[k].name = name
    /\ \A j \in 1..Len(pal) : EntryDist(rgb, pal, j) >= EntryDist(rgb, pal, k)
    /\ \A j \in 1..(k - 1) : EntryDist(rgb, pal, j) > EntryDist(rgb, pal, k)

\* C2: for every pixel and every non-empty palette, both colour classifiers
\* return the name of an entry at least squared RGB distance from the pixel,
\* and of several such entries the first in the palette's order.
C2_FirstNearestEntry ==
  /\ (call.op = "nearest_colour" /\ call.palette # <<>>) =>
       /\ call.out.err = "none"
       /\ FirstNearest(call.rgb, call.palette, call.out.name)
  /\ (call.op = "nearest_colour_vectorised" /\ call.palette # <<>>) =>
       /\ call.out.err = "none"
       /\ Len(call.out.names) = Len(call.px)
       /\ \A r \in 1..Len(call.px) :
            /\ Len(call.out.names[r]) = Len(call.px[r])
            /\ \A c \in 1..Len(call.px[r]) :
                 FirstNearest(call.px[r][c], call.palette, call.out.names[r][c])

\* the vectorised classifier returned the first of two entries that tie
C2_TieWitness ==
  /\ call.op = "nearest_colour_vectorised"
  /\ Len(call.palette) >= 2
  /\ call.out.err = "none"
  /\ \E c \in 1..Len(call.px[1]) :
       /\ EntryDist(call.px[1][c], call.palette, 1) = EntryDist(call.px[1][c], call.palette, 2)
       /\ call.out.names[1][c] = call.palette[1].name

\* the symbol the decision policy gives for a brightness and an edge strength
PolicyHolds(brightness, edge, symbol) ==
  /\ FGt(edge, FEdgeThreshold) => symbol = "x"
  /\ (~FGt(edge, FEdgeThreshold) /\ FLt(brightness, FBrightnessThreshold)) => symbol = "+"
  /\ (~FGt(edge, FEdgeThreshold) /\ ~FLt(brightness, FBrightnessThreshold)) => symbol = "o"

\* C3: with brightness = 0.299R + 0.587G + 0.114B the symbol is 'x' if
\* edge_strength > 150 whatever the brightness, else '+' if brightness < 100,
\* else 'o'; the vectorised and the per-pixel classifier agree on every input.
C3_StitchPolicy ==
  /\ call.op = "edge_brightness_to_stitch" =>
       PolicyHolds(Luma(call.rgb), call.edge, call.out)
  /\ call.op = "edge_brightness_to_stitch_vectorised" =>
       /\ Len(call.out) = Len(call.px)
       /\ \A r \in 1..Len(call.px) :
            /\ Len(call.out[r]) = Len(call.px[r])
            /\ \A c \in 1..Len(call.px[r]) :
                 /\ PolicyHolds(Luma(call.px[r][c]), call.edges[r][c], call.out[r][c])
                 /\ call.out[r][c] =
                      edge_brightness_to_stitch(call.px[r][c], call.edges[r][c])

\* the vectorised classifier met a dark cell on a strong edge, and a cell of
\* brightness exactly 100 on an edge of exactly 150
C3_PrecedenceWitness ==
  /\ call.op = "edge_brightness_to_stitch_vectorised"
  /\ Len(call.px[1]) = 2
  /\ FLt(Luma(call.px[1][1]), FBrightnessThreshold)
  /\ FGt(call.edges[1][1], FEdgeThreshold)
  /\ call.out[1][1] = "x"
  /\ Luma(call.px[1][2]) = FBrightnessThreshold
  /\ call.edges[1][2] = FEdgeThreshold
  /\ call.out[1][2] = "o"

\* C9: with an empty palette colour classification raises LookupMiss; it
\* never returns a missing colour name.
C9_EmptyPaletteRaisesLookupMiss ==
  (call.op \in {"nearest_colour", "nearest_colour_vectorised"} /\ call.palette = <<>>) =>
    call.out.err = "LookupMiss"

Gridded == {"gridded", "printed", "done"}

\* C4: for an R x C image the grid holds exactly R*C cells in row-major
\* order, every (row, col) of [0,R) x [0,C) exactly once, and the cell for
\* (r, c) carries the symbol and the colour classified for that same (r, c).
C4_GridRowMajor ==
  cli.pc \in Gridded =>
    LET R == cli.resized.rows
        C == cli.resized.cols
    IN  /\ Len(cli.df) = R * C
        /\ \A k \in 1..Len(cli.df) :
             /\ cli.df[k].row = (k - 1) \div C
             /\ cli.df[k].col = (k - 1) % C
        /\ \A r \in 0..(R - 1), c \in 0..(C - 1) :
             /\ Cardinality({k \in 1..Len(cli.df) :
                               cli.df[k].row = r /\ cli.df[k].col = c}) = 1
             /\ \A k \in 1..Len(cli.df) :
                  (cli.df[k].row = r /\ cli.df[k].col = c) =>
                    /\ cli.df[k].stitch =
                         edge_brightness_to_stitch(cli.resized.px[r + 1][c + 1],
                                                   cli.edges[r + 1][c + 1])
                    /\ cli.df[k].colour =
                         nearest_colour(cli.resized.px[r + 1][c + 1], cli.palette).name

\* a grid of more rows than columns, at least two of each, with two symbols
C4_TallGridWitness ==
  /\ cli.pc = "gridded"
  /\ cli.resized.cols >= 2
  /\ cli.resized.rows > cli.resized.cols
  /\ \E k \in 1..Len(cli.df) : cli.df[k].stitch # cli.df[1].stitch

Edged == {"edged"} \cup Gridded

IsFlat(img) ==
  /\ img.rows >= 1 /\ img.cols >= 1
  /\ \A r \in 1..img.rows, c \in 1..img.cols : img.px[r][c] = img.px[1][1]

\* C5 as stated: on an image whose cells all hold one RGB value compute_edges
\* yields edge strength 0 at every cell, so no cell is 'x' and all cells have
\* one symbol and one colour; 2 x 2 black with {black, white} gives black, '+'.
C5_FlatImageEdgeZero ==
  (cli.pc \in Edged /\ IsFlat(cli.resized)) =>
    /\ \A r \in 1..cli.resized.rows, c \in 1..cli.resized.cols : cli.edges[r][c] = FZero
    /\ cli.pc \in Gridded =>
         \A k \in 1..Len(cli.df) :
           /\ cli.df[k].stitch # "x"
           /\ cli.df[k].stitch = cli.df[1].stitch
           /\ cli.df[k].colour = cli.df[1].colour

FOne == FFromInt(1)

\* C5 as amended: on such an image the edge strength is the same at every
\* cell, border and corner cells included, and is 0 or a rounding residue
\* below 1 (0 on a black image), so no cell is 'x' and all cells have one
\* symbol and one colour; 2 x 2 black with {black, white} gives black, '+'.
C5_FlatImageNoEdge ==
  (cli.pc \in Edged /\ IsFlat(cli.resized)) =>
    /\ \A r \in 1..cli.resized.rows, c \in 1..cli.resized.cols :
         /\ cli.edges[r][c] = cli.edges[1][1]
         /\ FLt(cli.edges[r][c], FOne)
         /\ cli.resized.px[1][1] = Black => cli.edges[r][c] = FZero
    /\ cli.pc \in Gridded =>
         \A k \in 1..Len(cli.df) :
           /\ cli.df[k].stitch # "x"
           /\ cli.df[k].stitch = cli.df[1].stitch
           /\ cli.df[k].colour = cli.df[1].colour
           /\ (cli.resized.px[1][1] = Black /\ cli.resource = ResBlackWhite) =>
                (cli.df[k].colour = NameBlack /\ cli.df[k].stitch = "+")

\* a flat 2 x 2 grid whose edge strength is a residue, not 0
C5_FlatResidueWitness ==
  /\ cli.pc = "gridded"
  /\ IsFlat(cli.resized)
  /\ cli.resized.rows = 2 /\ cli.resized.cols = 2
  /\ cli.edges[1][1] # FZero
  /\ cli.df[4].stitch = "+"

\* C7: a conversion whose row or column count is 0 is rejected with
\* InvalidDimension before the resampler runs, and produces no grid.
C7_ZeroDimensionRejected ==
  (cli.pc # "sized" /\ (cli.rows = 0 \/ cli.cols = 0)) =>
    (cli.pc = "failed" /\ cli.err = "InvalidDimension" /\ cli.df = NoGrid)

\* C8: a palette resource with a hex value that is not 6 hex digits after an
\* optional '#' fails with ConfigError at load time, before any image work.
C8_MalformedHexRejectedAtLoad ==
  (cli.pc # "start" /\ \E k \in 1..Len(cli.resource.colours) :
                         ~WellFormedHex(cli.resource.colours[k].hex)) =>
    (cli.pc = "failed" /\ cli.err = "ConfigError" /\ cli.resized = NoImage)

Sized == {"sized", "gridded", "rendered", "responded", "fetched"}

\* C6: whatever the interleaving, what a request decodes, classifies and
\* renders, and the artifact its client receives, come from its own upload.
C6_RequestsIsolated ==
  \A i \in Requests :
    /\ req[i].pc \in Sized => req[i].src1 = req[i].file
    /\ req[i].pc \in (Sized \ {"sized"}) => req[i].src2 = req[i].file
    /\ req[i].pc \in {"rendered", "responded", "fetched"} =>
         req[i].fig.original = req[i].file
    /\ req[i].pc = "fetched" => req[i].fetched = req[i].fig

\* C10: in the upload path, for every image and every cols >= 1, rows = cols
\* and the grid handed to the renderer is cols x cols.
C10_UploadGridSquare ==
  \A i \in Requests :
    (req[i].pc \in Sized /\ req[i].cols >= 1) =>
      /\ req[i].rows = req[i].cols
      /\ req[i].pc \in (Sized \ {"sized"}) => Len(req[i].df) = req[i].cols * req[i].cols
      /\ req[i].pc \in {"rendered", "responded", "fetched"} =>
           (req[i].fig.rows = req[i].cols /\ req[i].fig.cols = req[i].cols)

\* an image that is not square was rendered as a square grid of 2 or more columns
C10_NonSquareSourceWitness ==
  \E i \in Requests :
    /\ req[i].pc = "rendered"
    /\ req[i].file.rows # req[i].file.cols
    /\ req[i].cols >= 2
    /\ Len(req[i].fig.marks) = req[i].cols * req[i].cols

====
